---- MODULE Spec2Model ----
(***************************************************************************)
(* nsone-reports.py: fetch the NS1 account activity, normalise the records *)
(* into a YAML report, print it and/or mail it.                            *)
(*                                                                         *)
(* The script is one sequential process; pc is its position.  Four         *)
(* specifications share the state and the actions:                         *)
(*   Spec        the whole script, from the call of get_reports on;        *)
(*   SpecParse   parse_reports called on one record of a wide record set;  *)
(*   SpecWindow  get_reports over the clock, the unit and the amount;      *)
(*   SpecMail    send_mail called with its eight parameters.               *)
(***************************************************************************)
EXTENDS Integers, Sequences, FiniteSets, TLC

VARIABLES
    args,            \* argparse namespace: unit, amount, limit, export, format, mailto, silent
    now,             \* the reading of datetime.utcnow() in get_reports: [s, us] since 1970-01-01
    pc,              \* position of the process
    request,         \* query parameters of the GET: [sent, start, limit, export]
    response,        \* HTTP response: [status, content]
    report,          \* value returned by get_reports
    idx,             \* parse_reports: position of the for loop in reports
    output,          \* parse_reports: the list output, a sequence of chunks
    parsed_reports,  \* __main__: parsed_reports
    stdout,          \* what print() wrote, in order
    mail,            \* send_mail: its parameters
    message,         \* send_mail: the parts attached to the MIME message
    smtp,            \* send_mail: the SMTP_SSL connection: "none", "open", "closed"
    delivered,       \* messages handed to server.sendmail that went through
    exit_code,       \* process exit status, -1 while running
    raised           \* the exception that ended the run, "" when none

vars == <<args, now, pc, request, response, report, idx, output, parsed_reports,
          stdout, mail, message, smtp, delivered, exit_code, raised>>

(***************************************************************************)
(* Bounds of the model.                                                    *)
(***************************************************************************)
MaxRecords == 2      \* records in one API response (Spec)
MaxAnswers == 2      \* elements of resource.answers (SpecParse)
MaxAnswerLen == 2    \* strings in one element's answer (SpecParse)
MaxAmount == 3       \* --amount (SpecWindow)

(***************************************************************************)
(* Python values.  NONE is None in a string-typed place; d.get(k) gives    *)
(* None for a missing key, so a missing string field is NONE as well.      *)
(***************************************************************************)
NONE == "<None>"

Truthy(s) == s # NONE /\ s # ""

Units == {"days", "seconds", "microseconds", "milliseconds", "minutes", "hours", "weeks"}

Formats == {"json", "xml", "csv", "pdf", "xlsx", "html"}

RECURSIVE SeqsUpTo(_, _)
SeqsUpTo(S, n) == IF n = 0 THEN {<<>>}
                  ELSE LET shorter == SeqsUpTo(S, n - 1)
                       IN  shorter \cup {Append(q, e) : q \in shorter, e \in S}

(***************************************************************************)
(* get_reports: the time window.  An instant and a duration are [s, us]    *)
(* with 0 <= us < 10^6, the normal form of datetime.timedelta (days are    *)
(* folded into s).                                                         *)
(***************************************************************************)
UnitSeconds(unit) ==
    CASE unit = "seconds" -> 1
      [] unit = "minutes" -> 60
      [] unit = "hours"   -> 3600
      [] unit = "days"    -> 86400
      [] unit = "weeks"   -> 604800
      [] OTHER            -> 0

UnitMicros(unit) ==
    CASE unit = "microseconds" -> 1
      [] unit = "milliseconds" -> 1000
      [] OTHER                 -> 0

\* timedelta(**{unit: amount})
TimeDelta(unit, amount) ==
    LET us == amount * UnitMicros(unit)
    IN  [s  |-> amount * UnitSeconds(unit) + (us \div 1000000),
         us |-> us % 1000000]

\* d - epoch, with d = utcnow() - timedelta(...) and epoch = datetime(1970, 1, 1)
SinceEpoch(t, delta) ==
    LET us == t.us - delta.us
    IN  IF us < 0 THEN [s |-> t.s - delta.s - 1, us |-> us + 1000000]
                  ELSE [s |-> t.s - delta.s, us |-> us]

\* int(td.total_seconds()): int() truncates towards zero
IntTotalSeconds(td) ==
    IF td.s >= 0 \/ td.us = 0 THEN td.s ELSE td.s + 1

StartFromPlus(t, unit, amount) ==
    IntTotalSeconds([s |-> t.s + TimeDelta(unit, amount).s, us |-> t.us])

StartFrom(t, unit, amount) ==
    IntTotalSeconds(SinceEpoch(t, TimeDelta(unit, amount)))

(***************************************************************************)
(* Activity records, as r.json() delivers them.  A string field that is    *)
(* missing reads NONE under .get; resource and answer are also read with   *)
(* [...], which raises KeyError on a missing key, so their presence is     *)
(* kept apart from their value.                                            *)
(***************************************************************************)
NoResource == [zone |-> NONE, type |-> NONE, domain |-> NONE,
               has_answers |-> FALSE, answers |-> <<>>]

Timestamp(n) == [kind |-> "int", n |-> n]

NoTimestamp == [kind |-> "missing", n |-> 0]

BadTimestamp == [kind |-> "str", n |-> 0]

AnswerOf(strings) == [has_answer |-> TRUE, answer |-> strings]

NoAnswerKey == [has_answer |-> FALSE, answer |-> <<>>]

Record(zone, timestamp, has_resource, resource) ==
    [user_name |-> "alice", user_id |-> "1", zone |-> zone, timestamp |-> timestamp,
     action |-> "update", has_resource |-> has_resource, resource |-> resource]

\* item["resource"].get("answers") is truthy
HasAnswers(item) == item.resource.has_answers /\ item.resource.answers # <<>>

(***************************************************************************)
(* parse_reports: one entry per record.                                    *)
(***************************************************************************)
\* convert_timestamp: int(timestamp), then strftime in local time
convert_timestamp(timestamp) == [fmt |-> "%d.%m.%Y %H:%M:%S", epoch |-> timestamp.n]

RECURSIVE ChainReversed(_)
ChainReversed(lists) ==
    IF lists = <<>> THEN <<>> ELSE ChainReversed(Tail(lists)) \o Head(lists)

\* itertools.chain.from_iterable
RECURSIVE Chain(_)
Chain(lists) ==
    IF lists = <<>> THEN <<>> ELSE Head(lists) \o Chain(Tail(lists))

ItemExceptionLenient(item) ==
    IF Truthy(item.zone) /\ ~item.has_resource THEN "KeyError"
    ELSE IF item.timestamp.kind = "str" THEN "ValueError"
    ELSE IF ~item.has_resource THEN "KeyError"
    ELSE IF HasAnswers(item)
            /\ \E k \in 1..Len(item.resource.answers) : ~item.resource.answers[k].has_answer
         THEN "KeyError"
    ELSE ""

\* the exception the loop body raises on item, "" when it raises none
ItemException(item) ==
    IF Truthy(item.zone) /\ ~item.has_resource THEN "KeyError"
    ELSE IF item.timestamp.kind = "missing" THEN "TypeError"
    ELSE IF item.timestamp.kind = "str" THEN "ValueError"
    ELSE IF ~item.has_resource THEN "KeyError"
    ELSE IF HasAnswers(item)
            /\ \E k \in 1..Len(item.resource.answers) : ~item.resource.answers[k].has_answer
         THEN "KeyError"
    ELSE ""

EmptyEntry ==
    [keys |-> <<>>, user_name |-> NONE, user_id |-> NONE, zone |-> NONE,
     time |-> [fmt |-> "", epoch |-> 0], action |-> NONE, type |-> NONE,
     domain |-> NONE, answers |-> <<>>, resource |-> NoResource]

WithKey(entry, key) == [entry EXCEPT !.keys = Append(@, key)]

\* result after lines 129-134
EntryHead(item) ==
    LET r1 == [WithKey(EmptyEntry, "user_name") EXCEPT !.user_name = item.user_name]
        r2 == [WithKey(r1, "user_id") EXCEPT !.user_id = item.user_id]
        r3 == IF Truthy(item.zone)
              THEN [WithKey(r2, "zone") EXCEPT !.zone = item.resource.zone]
              ELSE r2
        r4 == [WithKey(r3, "time") EXCEPT !.time = convert_timestamp(item.timestamp)]
    IN  [WithKey(r4, "action") EXCEPT !.action = item.action]

\* result after lines 135-138
EntryTypeDomain(item) ==
    LET r5 == EntryHead(item)
        r6 == IF Truthy(item.resource.type)
              THEN [WithKey(r5, "type") EXCEPT !.type = item.resource.type]
              ELSE r5
    IN  IF Truthy(item.resource.domain)
        THEN [WithKey(r6, "domain") EXCEPT !.domain = item.resource.domain]
        ELSE r6

FlattenAnswers(item) ==
    Chain([k \in 1..Len(item.resource.answers) |-> item.resource.answers[k].answer])

BuildEntryResourceAlways(item) ==
    LET r7 == EntryTypeDomain(item)
        r8 == IF HasAnswers(item)
              THEN [WithKey(r7, "answers") EXCEPT !.answers = FlattenAnswers(item)]
              ELSE r7
    IN  [WithKey(r8, "resource") EXCEPT !.resource = item.resource]

\* result as dumped at line 147, for an item whose ItemException is ""
BuildEntry(item) ==
    LET r7 == EntryTypeDomain(item)
    IN  IF HasAnswers(item)
        THEN [WithKey(r7, "answers") EXCEPT !.answers = FlattenAnswers(item)]
        ELSE [WithKey(r7, "resource") EXCEPT !.resource = item.resource]

(***************************************************************************)
(* The report text.  A Python str of the report is a sequence of lines.    *)
(***************************************************************************)
Line(kind, key, s) ==
    [kind |-> kind, key |-> key, s |-> s, time |-> [fmt |-> "", epoch |-> 0],
     map |-> NoResource]

SeparatorLine == Line("separator", "", "---")

BlankLine == Line("blank", "", "")

LinesOf(entry, key) ==
    CASE key = "user_name" -> <<Line("scalar", key, entry.user_name)>>
      [] key = "user_id"   -> <<Line("scalar", key, entry.user_id)>>
      [] key = "zone"      -> <<Line("scalar", key, entry.zone)>>
      [] key = "time"      -> <<[Line("scalar", key, "") EXCEPT !.time = entry.time]>>
      [] key = "action"    -> <<Line("scalar", key, entry.action)>>
      [] key = "type"      -> <<Line("scalar", key, entry.type)>>
      [] key = "domain"    -> <<Line("scalar", key, entry.domain)>>
      [] key = "answers"   -> <<Line("list", key, "")>>
                              \o [k \in 1..Len(entry.answers) |->
                                     Line("item", key, entry.answers[k])]
      [] key = "resource"  -> <<[Line("mapping", key, "") EXCEPT !.map = entry.resource]>>

\* yaml.dump(result, sort_keys=False, allow_unicode=True): block style, keys in
\* insertion order
RECURSIVE DumpKeys(_, _)
DumpKeys(entry, keys) ==
    IF keys = <<>> THEN <<>>
    ELSE LinesOf(entry, Head(keys)) \o DumpKeys(entry, Tail(keys))

YamlDump(entry) == DumpKeys(entry, entry.keys)

\* the three output.append calls of one iteration
ItemChunks(item) == <<(<<SeparatorLine>>), YamlDump(BuildEntry(item)), (<<BlankLine>>)>>

OutputPrepended(out, item) == ItemChunks(item) \o out

OutputAfter(out, item) == out \o ItemChunks(item)

\* "".join(output)
RECURSIVE Join(_)
Join(chunks) == IF chunks = <<>> THEN <<>> ELSE Head(chunks) \o Join(Tail(chunks))

(***************************************************************************)
(* Python values held by report and parsed_reports.                        *)
(*   "None"   None                                                         *)
(*   "str"    a str, as its characters (the API's error message)           *)
(*   "text"   a str, as its lines (the joined report)                      *)
(*   "bytes"  bytes, as the tokens of the body                             *)
(*   "decoded" a str, as the tokens of the bytes it was decoded from       *)
(*   "list"   a list of activity records                                   *)
(***************************************************************************)
Py(kind, chars, lines, bytes, list) ==
    [kind |-> kind, chars |-> chars, lines |-> lines, bytes |-> bytes, list |-> list]

PyUnset == Py("unset", <<>>, <<>>, <<>>, <<>>)

PyNone == Py("None", <<>>, <<>>, <<>>, <<>>)

PyStr(chars) == Py("str", chars, <<>>, <<>>, <<>>)

PyText(lines) == Py("text", <<>>, lines, <<>>, <<>>)

PyBytes(bytes) == Py("bytes", <<>>, <<>>, bytes, <<>>)

PyList(list) == Py("list", <<>>, <<>>, <<>>, list)

\* len(v), for a v that has a length
PyLen(v) ==
    CASE v.kind = "str"   -> Len(v.chars)
      [] v.kind = "text"  -> Len(v.lines)
      [] v.kind \in {"bytes", "decoded"} -> Len(v.bytes)
      [] v.kind = "list"  -> Len(v.list)
      [] OTHER            -> 0

(***************************************************************************)
(* The activity API.  A body is a sequence of tokens.  The JSON array of   *)
(* records r1, r2 is "[", r1, r2, "]", each record one token; the error    *)
(* object is "{", "message", the characters of the message, "}".           *)
(***************************************************************************)
ResourceWith(type, domain, has_answers, answers) ==
    [zone |-> "example.com", type |-> type, domain |-> domain,
     has_answers |-> has_answers, answers |-> answers]

RecordTokens == {"r1", "r2", "r3", "r4", "r5", "r6", "r7", "r8", "r9"}

RecordOf(token) ==
    CASE token = "r1" ->
           Record(NONE, Timestamp(1700000000), TRUE,
                  ResourceWith("A", "example.com", TRUE,
                               <<AnswerOf(<<"1.2.3.4">>), AnswerOf(<<"5.6.7.8", "9.9.9.9">>)>>))
      [] token = "r2" ->
           Record(NONE, Timestamp(1700000060), TRUE,
                  ResourceWith("A", "example.com", FALSE, <<>>))
      [] token = "r3" ->
           Record("example.com", Timestamp(1700000120), TRUE,
                  ResourceWith(NONE, NONE, FALSE, <<>>))
      [] token = "r4" ->
           Record(NONE, NoTimestamp, TRUE,
                  ResourceWith("A", "example.com", TRUE, <<AnswerOf(<<"1.2.3.4">>)>>))
      [] token = "r5" ->
           Record(NONE, Timestamp(1700000180), FALSE, NoResource)
      [] token = "r6" ->
           Record(NONE, Timestamp(1700000240), TRUE,
                  ResourceWith("A", "example.com", TRUE,
                               <<AnswerOf(<<"1.2.3.4">>), NoAnswerKey>>))
      [] token = "r7" ->
           Record(NONE, Timestamp(1700000300), TRUE,
                  ResourceWith(NONE, "example.com", TRUE, <<>>))
      [] token = "r8" ->
           Record(NONE, Timestamp(1700000360), TRUE,
                  ResourceWith("MX", "", TRUE,
                               <<AnswerOf(<<"5.6.7.8">>), AnswerOf(<<"1.2.3.4">>),
                                 AnswerOf(<<"5.6.7.8">>)>>))
      [] token = "r9" ->
           Record(NONE, BadTimestamp, TRUE,
                  ResourceWith("A", "example.com", FALSE, <<>>))

ListBodies == {<<"[">> \o q \o <<"]">> : q \in SeqsUpTo(RecordTokens, MaxRecords)}

ExportBodies ==
    {<<"[", "]">>, <<"[", "r1", "r2", "]">>, <<"user_name,action">>,
     <<"%PDF-1.4", "0xFF">>}

Unauthorized == <<"U", "n", "a", "u", "t", "h", "o", "r", "i", "z", "e", "d">>

ErrorBodies ==
    {<<"{", "message">> \o Unauthorized \o <<"}">>, <<"{", "message", "}">>,
     <<"{", "}">>, <<"<html>">>}

Responses(export) ==
    {[status |-> 200, content |-> b] : b \in IF export THEN ExportBodies ELSE ListBodies}
    \cup {[status |-> st, content |-> b] : st \in {401, 500}, b \in ErrorBodies}

NoResponse == [status |-> 0, content |-> <<>>]

IsJsonList(content) ==
    /\ Len(content) >= 2
    /\ content[1] = "[" /\ content[Len(content)] = "]"
    /\ \A k \in 2..(Len(content) - 1) : content[k] \in RecordTokens

IsJsonObject(content) ==
    /\ Len(content) >= 2
    /\ content[1] = "{" /\ content[Len(content)] = "}"
    /\ Len(content) > 2 => content[2] = "message"

\* r.json(), on a body that is JSON
JsonList(content) == [k \in 1..(Len(content) - 2) |-> RecordOf(content[k + 1])]

\* r.json().get("message")
JsonMessage(content) ==
    IF Len(content) > 2 THEN PyStr(SubSeq(content, 3, Len(content) - 1)) ELSE PyNone

\* bytes.decode("utf-8") succeeds
Utf8(bytes) == \A k \in 1..Len(bytes) : bytes[k] # "0xFF"

\* bytes.decode("utf-8"), on bytes that are UTF-8
Decoded(bytes) == Py("decoded", <<>>, <<>>, bytes, <<>>)

(***************************************************************************)
(* get_reports                                                             *)
(***************************************************************************)
\* params of the GET; export is NONE when the key is not set
Params(a, t) ==
    [sent |-> TRUE, start |-> StartFrom(t, a.unit, a.amount), limit |-> a.limit,
     export |-> IF a.export THEN a.format ELSE NONE]

NoRequest == [sent |-> FALSE, start |-> 0, limit |-> 0, export |-> NONE]

\* the exception lines 109-113 raise on the response, "" when none
ReturnException(export, resp) ==
    IF resp.status = 200
    THEN IF export \/ IsJsonList(resp.content) \/ IsJsonObject(resp.content)
         THEN "" ELSE "JSONDecodeError"
    ELSE IF IsJsonObject(resp.content) THEN ""
         ELSE IF IsJsonList(resp.content) THEN "AttributeError"
         ELSE "JSONDecodeError"

ReturnValueParsed(export, resp) ==
    IF resp.status = 200
    THEN IF IsJsonList(resp.content) THEN PyList(JsonList(resp.content))
         ELSE PyBytes(resp.content)
    ELSE JsonMessage(resp.content)

\* the value lines 109-113 return
ReturnValue(export, resp) ==
    IF resp.status = 200
    THEN IF export THEN PyBytes(resp.content) ELSE PyList(JsonList(resp.content))
    ELSE JsonMessage(resp.content)

Crash(exception) ==
    /\ pc' = "crashed"
    /\ raised' = exception
    /\ exit_code' = 1

\* sys_exit(e) with e an exception: the message goes to stderr, the status is 1
SysExit(exception) ==
    /\ pc' = "exited"
    /\ raised' = exception
    /\ exit_code' = 1

GetReports ==
    /\ pc = "main"
    /\ \E resp \in Responses(args.export) :
          /\ ReturnException(args.export, resp) = ""
          /\ response' = resp
          /\ report' = ReturnValue(args.export, resp)
    /\ request' = Params(args, now)
    /\ pc' = "got_report"
    /\ UNCHANGED <<args, now, idx, output, parsed_reports, stdout, mail, message,
                   smtp, delivered, exit_code, raised>>

GetReportsCrash ==
    /\ pc = "main"
    /\ \E resp \in Responses(args.export) :
          /\ ReturnException(args.export, resp) # ""
          /\ response' = resp
          /\ Crash(ReturnException(args.export, resp))
    /\ request' = Params(args, now)
    /\ UNCHANGED <<args, now, report, idx, output, parsed_reports, stdout, mail,
                   message, smtp, delivered>>

\* s.get raises: logging.error(e); sys_exit(e)
GetReportsTransportError ==
    /\ pc = "main"
    /\ request' = Params(args, now)
    /\ SysExit("ConnectionError")
    /\ UNCHANGED <<args, now, response, report, idx, output, parsed_reports, stdout,
                   mail, message, smtp, delivered>>

(***************************************************************************)
(* __main__, lines 223-252, and parse_reports                              *)
(***************************************************************************)
\* line 225 with --export: parsed_reports = report
MainSkipParse ==
    /\ pc = "got_report"
    /\ args.export
    /\ parsed_reports' = report
    /\ pc' = "print"
    /\ UNCHANGED <<args, now, request, response, report, idx, output, stdout, mail,
                   message, smtp, delivered, exit_code, raised>>

\* line 225 without --export, lines 122-123: output = [], len(reports)
MainCallParse ==
    /\ pc = "got_report"
    /\ ~args.export
    /\ report.kind # "None"
    /\ output' = <<>>
    /\ idx' = 1
    /\ pc' = "parse_loop"
    /\ UNCHANGED <<args, now, request, response, report, parsed_reports, stdout, mail,
                   message, smtp, delivered, exit_code, raised>>

\* len(None) at line 123
MainCallParseCrash ==
    /\ pc = "got_report"
    /\ ~args.export
    /\ report.kind = "None"
    /\ Crash("TypeError")
    /\ UNCHANGED <<args, now, request, response, report, idx, output, parsed_reports,
                   stdout, mail, message, smtp, delivered>>

\* the exception of the iteration at position i: an item of a str is a str,
\* which has no .get
ExceptionAt(reports, i) ==
    IF reports.kind = "list" THEN ItemException(reports.list[i]) ELSE "AttributeError"

\* one iteration of the loop, lines 124-148
ParseItem ==
    /\ pc = "parse_loop"
    /\ idx <= PyLen(report)
    /\ ExceptionAt(report, idx) = ""
    /\ output' = OutputAfter(output, report.list[idx])
    /\ idx' = idx + 1
    /\ UNCHANGED <<args, now, pc, request, response, report, parsed_reports, stdout,
                   mail, message, smtp, delivered, exit_code, raised>>

\* lines 149-151: KeyError is caught, logged, and ends the process
ParseKeyError ==
    /\ pc = "parse_loop"
    /\ idx <= PyLen(report)
    /\ ExceptionAt(report, idx) = "KeyError"
    /\ output' = Append(output, <<SeparatorLine>>)
    /\ SysExit("KeyError")
    /\ UNCHANGED <<args, now, request, response, report, idx, parsed_reports, stdout,
                   mail, message, smtp, delivered>>

\* any other exception of the loop body is not caught
ParseCrash ==
    /\ pc = "parse_loop"
    /\ idx <= PyLen(report)
    /\ ExceptionAt(report, idx) \notin {"", "KeyError"}
    /\ output' = Append(output, <<SeparatorLine>>)
    /\ Crash(ExceptionAt(report, idx))
    /\ UNCHANGED <<args, now, request, response, report, idx, parsed_reports, stdout,
                   mail, message, smtp, delivered>>

\* line 153, and the assignment of line 225
ParseReturn ==
    /\ pc = "parse_loop"
    /\ idx > PyLen(report)
    /\ parsed_reports' = PyText(Join(output))
    /\ pc' = "print"
    /\ UNCHANGED <<args, now, request, response, report, idx, output, stdout, mail,
                   message, smtp, delivered, exit_code, raised>>

\* the condition of line 228
Prints(a) == ~Truthy(a.mailto) \/ a.silent

\* the exception line 229 raises, "" when none
PrintException(a, v) ==
    IF ~a.export THEN ""
    ELSE IF v.kind # "bytes" THEN "AttributeError"
    ELSE IF ~Utf8(v.bytes) THEN "UnicodeDecodeError"
    ELSE ""

\* lines 228-229
MainPrint ==
    /\ pc = "print"
    /\ Prints(args)
    /\ PrintException(args, parsed_reports) = ""
    /\ stdout' = Append(stdout, IF args.export THEN Decoded(parsed_reports.bytes)
                                ELSE parsed_reports)
    /\ pc' = "mail"
    /\ UNCHANGED <<args, now, request, response, report, idx, output, parsed_reports,
                   mail, message, smtp, delivered, exit_code, raised>>

MainPrintCrash ==
    /\ pc = "print"
    /\ Prints(args)
    /\ PrintException(args, parsed_reports) # ""
    /\ Crash(PrintException(args, parsed_reports))
    /\ UNCHANGED <<args, now, request, response, report, idx, output, parsed_reports,
                   stdout, mail, message, smtp, delivered>>

MainNoPrint ==
    /\ pc = "print"
    /\ ~Prints(args)
    /\ pc' = "mail"
    /\ UNCHANGED <<args, now, request, response, report, idx, output, parsed_reports,
                   stdout, mail, message, smtp, delivered, exit_code, raised>>

\* the exception lines 231-252 raise before send_mail is called, "" when none:
\* len(None) at line 231; args.header at line 233, parse_args declaring neither
\* --header nor --footer
MailException(a, v) ==
    IF ~Truthy(a.mailto) THEN ""
    ELSE IF v.kind = "None" THEN "TypeError"
    ELSE IF PyLen(v) # 0 THEN "AttributeError"
    ELSE ""

\* line 231 false: the script ends
MainNoMail ==
    /\ pc = "mail"
    /\ MailException(args, parsed_reports) = ""
    /\ pc' = "done"
    /\ exit_code' = 0
    /\ UNCHANGED <<args, now, request, response, report, idx, output, parsed_reports,
                   stdout, mail, message, smtp, delivered, raised>>

MainMailCrash ==
    /\ pc = "mail"
    /\ MailException(args, parsed_reports) # ""
    /\ Crash(MailException(args, parsed_reports))
    /\ UNCHANGED <<args, now, request, response, report, idx, output, parsed_reports,
                   stdout, mail, message, smtp, delivered>>

(***************************************************************************)
(* send_mail.  mailto is held as the addresses between its commas.         *)
(***************************************************************************)
Part(subtype, body, template) == [subtype |-> subtype, body |-> body, template |-> template]

\* lines 165-182: the parts attached, in order
Compose(m) ==
    <<Part("plain", m.body, "")>>
    \o IF m.formatting = "html"
       THEN <<Part("html", m.body, "")>>
       ELSE <<Part("plain", m.body, ""), Part("html", m.body, "nsone-report.html.j2")>>

\* lines 159-182
SendMailCompose ==
    /\ pc = "send_mail"
    /\ message' = Compose(mail)
    /\ pc' = "connect"
    /\ UNCHANGED <<args, now, request, response, report, idx, output, parsed_reports,
                   stdout, mail, smtp, delivered, exit_code, raised>>

\* line 177: env.get_template raises when the template is not found
SendMailTemplateError ==
    /\ pc = "send_mail"
    /\ mail.formatting # "html"
    /\ message' = <<Part("plain", mail.body, "")>>
    /\ Crash("TemplateNotFound")
    /\ UNCHANGED <<args, now, request, response, report, idx, output, parsed_reports,
                   stdout, mail, smtp, delivered>>

\* the condition of line 184
Authenticates(m) == Truthy(m.user) /\ Truthy(m.password)

\* line 183
SmtpConnect ==
    /\ pc = "connect"
    /\ smtp' = "open"
    /\ pc' = IF Authenticates(mail) THEN "login" ELSE "sendmail"
    /\ UNCHANGED <<args, now, request, response, report, idx, output, parsed_reports,
                   stdout, mail, message, delivered, exit_code, raised>>

\* line 183: SMTP_SSL raises, no connection is made
SmtpConnectError ==
    /\ pc = "connect"
    /\ Crash("OSError")
    /\ UNCHANGED <<args, now, request, response, report, idx, output, parsed_reports,
                   stdout, mail, message, smtp, delivered>>

\* line 185
SmtpLogin ==
    /\ pc = "login"
    /\ pc' = "sendmail"
    /\ UNCHANGED <<args, now, request, response, report, idx, output, parsed_reports,
                   stdout, mail, message, smtp, delivered, exit_code, raised>>

\* line 185: login raises, outside the try statement of lines 186-191
SmtpLoginError ==
    /\ pc = "login"
    /\ Crash("SMTPAuthenticationError")
    /\ UNCHANGED <<args, now, request, response, report, idx, output, parsed_reports,
                   stdout, mail, message, smtp, delivered>>

\* lines 186-187 and 190-191: sendmail, then quit
SmtpSendmail ==
    /\ pc = "sendmail"
    /\ delivered' = Append(delivered, [from |-> mail.mailfrom, to |-> mail.mailto,
                                       parts |-> message])
    /\ smtp' = "closed"
    /\ pc' = "returned"
    /\ UNCHANGED <<args, now, request, response, report, idx, output, parsed_reports,
                   stdout, mail, message, exit_code, raised>>

\* lines 188-191: sendmail raises, sys_exit(e), and quit on the way out
SmtpSendmailError ==
    /\ pc = "sendmail"
    /\ smtp' = "closed"
    /\ SysExit("SMTPException")
    /\ UNCHANGED <<args, now, request, response, report, idx, output, parsed_reports,
                   stdout, mail, message, delivered>>

(***************************************************************************)
(* Specifications                                                          *)
(***************************************************************************)
DefaultArgs ==
    [unit |-> "hours", amount |-> 1, limit |-> 20, export |-> FALSE, format |-> "json",
     mailto |-> NONE, silent |-> FALSE]

NoMail ==
    [mailfrom |-> NONE, mailto |-> <<>>, server |-> NONE, user |-> NONE,
     password |-> NONE, body |-> PyUnset, formatting |-> NONE, port |-> 465]

Clock == [s |-> 1700003600, us |-> 250000]

\* the state before line 223, but for args, now and pc
Idle ==
    /\ request = NoRequest
    /\ response = NoResponse
    /\ report = PyUnset
    /\ idx = 0
    /\ output = <<>>
    /\ parsed_reports = PyUnset
    /\ stdout = <<>>
    /\ mail = NoMail
    /\ message = <<>>
    /\ smtp = "none"
    /\ delivered = <<>>
    /\ exit_code = -1
    /\ raised = ""

\* the script at line 223, under every choice of the flags
Init ==
    /\ args \in [unit : {"hours"}, amount : {1}, limit : {20}, export : BOOLEAN,
                 format : Formats, mailto : {NONE, "", "ops@example.com"},
                 silent : BOOLEAN]
    /\ now = Clock
    /\ pc = "main"
    /\ Idle

Next ==
    \/ GetReports
    \/ GetReportsCrash
    \/ GetReportsTransportError
    \/ MainSkipParse
    \/ MainCallParse
    \/ MainCallParseCrash
    \/ ParseItem
    \/ ParseKeyError
    \/ ParseCrash
    \/ ParseReturn
    \/ MainPrint
    \/ MainPrintCrash
    \/ MainNoPrint
    \/ MainNoMail
    \/ MainMailCrash

Spec == Init /\ [][Next]_vars

\* get_reports over the clock, the unit and the amount
Clocks ==
    {[s |-> 1700003600, us |-> 0], [s |-> 1700003600, us |-> 1],
     [s |-> 1700003600, us |-> 999999], [s |-> 2, us |-> 0], [s |-> 1, us |-> 500000],
     [s |-> 0, us |-> 0]}

InitWindow ==
    /\ args \in [unit : Units, amount : 0..MaxAmount, limit : {20}, export : {TRUE},
                 format : {"json"}, mailto : {NONE}, silent : {FALSE}]
    /\ now \in Clocks
    /\ pc = "main"
    /\ Idle

NextWindow ==
    \/ GetReports
    \/ GetReportsCrash
    \/ GetReportsTransportError

SpecWindow == InitWindow /\ [][NextWindow]_vars

\* parse_reports on a list of one record
Strings == {"1.2.3.4", "5.6.7.8"}

WideElements == {AnswerOf(a) : a \in SeqsUpTo(Strings, MaxAnswerLen)} \cup {NoAnswerKey}

WideResources ==
    {ResourceWith(type, domain, TRUE, answers) :
        type \in {NONE, "A"}, domain \in {NONE, "example.com"},
        answers \in SeqsUpTo(WideElements, MaxAnswers)}
    \cup {ResourceWith(type, domain, FALSE, <<>>) :
        type \in {NONE, "A"}, domain \in {NONE, "example.com"}}

WideRecords ==
    {Record(zone, timestamp, TRUE, resource) :
        zone \in {NONE, "example.com"}, timestamp \in {Timestamp(1700000000), NoTimestamp},
        resource \in WideResources}
    \cup {Record(zone, Timestamp(1700000000), FALSE, NoResource) :
        zone \in {NONE, "example.com"}}

InitParse ==
    /\ args = DefaultArgs
    /\ now = Clock
    /\ pc = "parse_loop"
    /\ request = NoRequest
    /\ response = NoResponse
    /\ report \in {PyList(<<item>>) : item \in WideRecords}
    /\ idx = 1
    /\ output = <<>>
    /\ parsed_reports = PyUnset
    /\ stdout = <<>>
    /\ mail = NoMail
    /\ message = <<>>
    /\ smtp = "none"
    /\ delivered = <<>>
    /\ exit_code = -1
    /\ raised = ""

NextParse ==
    \/ ParseItem
    \/ ParseKeyError
    \/ ParseCrash
    \/ ParseReturn

SpecParse == InitParse /\ [][NextParse]_vars

\* send_mail under every choice of its parameters
InitMail ==
    /\ args = DefaultArgs
    /\ now = Clock
    /\ pc = "send_mail"
    /\ request = NoRequest
    /\ response = NoResponse
    /\ report = PyUnset
    /\ idx = 0
    /\ output = <<>>
    /\ parsed_reports = PyUnset
    /\ stdout = <<>>
    /\ mail \in [mailfrom : {"localhost"},
                 mailto : {<<"ops@example.com">>, <<"a@example.com", "b@example.com">>},
                 server : {"localhost"}, user : {NONE, "", "nsone"},
                 password : {NONE, "", "secret"},
                 body : {PyText(<<SeparatorLine>>), PyText(Join(ItemChunks(RecordOf("r1"))))},
                 formatting : {NONE} \cup Formats, port : {465}]
    /\ message = <<>>
    /\ smtp = "none"
    /\ delivered = <<>>
    /\ exit_code = -1
    /\ raised = ""

NextMail ==
    \/ SendMailCompose
    \/ SendMailTemplateError
    \/ SmtpConnect
    \/ SmtpConnectError
    \/ SmtpLogin
    \/ SmtpLoginError
    \/ SmtpSendmail
    \/ SmtpSendmailError

SpecMail == InitMail /\ [][NextMail]_vars

(***************************************************************************)
(* Properties                                                              *)
(***************************************************************************)
Terminated == pc \in {"done", "exited", "crashed"}

\* the API answered with an error object that carries a message
ErrorWithMessage ==
    /\ response.status \notin {0, 200}
    /\ IsJsonObject(response.content)
    /\ Len(response.content) > 2

\* C1: when the API answers with a status other than 200 and an error message,
\* with or without --export, get_reports returns that message and no later step
\* (parse_reports, the print, the mail step) ends the run with an unhandled error.
C1_ErrorMessageSurfacesWithoutCrash ==
    ErrorWithMessage =>
        /\ report = JsonMessage(response.content)
        /\ pc # "crashed"

\* the amounts above the one of this run
LargerAmounts == (args.amount + 1)..(MaxAmount + 1)

\* C2 as stated, for the clocks of this century: for a fixed unit and clock, a
\* larger amount gives a strictly smaller start.
C2_StartStrictlyDecreases ==
    (request.sent /\ now.s >= 1000000000) =>
        \A a2 \in LargerAmounts : StartFrom(now, args.unit, a2) < request.start

\* C2, amended: for a fixed unit and clock, a larger amount never gives a larger
\* start, and gives a strictly smaller one when the unit is a whole number of
\* seconds and the start instant of the larger amount is not before 1970-01-01.
C2_StartNeverIncreases ==
    request.sent =>
        \A a2 \in LargerAmounts :
            /\ StartFrom(now, args.unit, a2) <= request.start
            /\ (UnitSeconds(args.unit) > 0
                /\ SinceEpoch(now, TimeDelta(args.unit, a2)).s >= 0)
               => StartFrom(now, args.unit, a2) < request.start

\* two amounts of milliseconds give the same start
C2_Witness ==
    /\ request.sent
    /\ args.unit = "milliseconds"
    /\ args.amount = 1
    /\ StartFrom(now, args.unit, 2) = request.start

\* the position of the first record of the list that has no timestamp, 0 when none
FirstWithoutTimestamp ==
    IF report.kind = "list"
       /\ \E k \in 1..Len(report.list) : report.list[k].timestamp.kind = "missing"
    THEN CHOOSE k \in 1..Len(report.list) :
            /\ report.list[k].timestamp.kind = "missing"
            /\ \A j \in 1..(k - 1) : report.list[j].timestamp.kind # "missing"
    ELSE 0

\* C3: when a record of the list has no timestamp, wherever it stands,
\* parse_reports never returns, nothing is printed or mailed, and the process
\* ends with a status other than 0.
C3_MissingTimestampAborts ==
    (~args.export /\ FirstWithoutTimestamp > 0) =>
        /\ parsed_reports = PyUnset
        /\ stdout = <<>>
        /\ delivered = <<>>
        /\ pc \in {"got_report", "parse_loop", "exited", "crashed"}
        /\ pc = "parse_loop" => idx <= FirstWithoutTimestamp
        /\ Terminated => exit_code # 0

\* a valid record was normalised, the next one has no timestamp, the run is over
C3_Witness ==
    /\ ~args.export
    /\ report.kind = "list"
    /\ Len(report.list) = 2
    /\ ItemException(report.list[1]) = ""
    /\ report.list[2].timestamp.kind = "missing"
    /\ Len(output) = 4
    /\ pc = "crashed"
    /\ raised = "TypeError"
    /\ exit_code = 1

\* C4: once the SMTP connection is open, it is closed before send_mail returns or
\* the process ends, on the path of a successful send and on the paths where
\* login or sendmail fails.
C4_ConnectionAlwaysClosed ==
    (pc \in {"returned", "exited", "crashed"} /\ smtp # "none") => smtp = "closed"

\* send_mail was entered
SendMailCalled == mail # NoMail

\* the fetch answered 200, the report was normalised (or taken over raw), and it
\* is one that line 229 can print
Normalised ==
    /\ response.status = 200
    /\ parsed_reports # PyUnset
    /\ PrintException(args, parsed_reports) = ""

\* C5: a run whose fetch and normalisation succeed prints or mails at least once
\* and ends with status 0, under every choice of --mailto, --silent and --export;
\* with a recipient and a report that is not empty, send_mail is called.
C5_SuccessfulRunOutputsAndExitsZero ==
    (Normalised /\ Terminated) =>
        /\ exit_code = 0
        /\ Len(stdout) + Len(delivered) >= 1 \/ SendMailCalled
        /\ (Truthy(args.mailto) /\ PyLen(parsed_reports) # 0) => SendMailCalled

\* C6: with --silent nothing is printed, whatever --mailto and --export are.
C6_SilentNeverPrints == args.silent => stdout = <<>>

\* C7: on a 200 answer, with --export get_reports returns the body as received
\* and the request carries export=<format>; without --export the request has no
\* export parameter and the records of the body are returned, in order.
C7_ExportReturnsRawBody ==
    response.status = 200 =>
        IF args.export
        THEN /\ request.export = args.format
             /\ report.kind = "bytes"
             /\ report.bytes = response.content
        ELSE /\ request.export = NONE
             /\ report.kind = "list"
             /\ Len(report.list) = Len(response.content) - 2
             /\ \A k \in 1..Len(report.list) :
                   report.list[k] = RecordOf(response.content[k + 1])

\* a JSON body asked for with --export --format json comes back unparsed
C7_Witness ==
    /\ args.export
    /\ args.format = "json"
    /\ response.status = 200
    /\ IsJsonList(response.content)
    /\ Len(response.content) = 4
    /\ report = PyBytes(response.content)
    /\ request.export = "json"

\* the dumped entry has a line for key
HasKey(lines, key) == \E j \in 1..Len(lines) : lines[j].key = key

\* the records normalised so far, and the dump of the k-th of them
Parsing == report.kind = "list" /\ pc \in {"parse_loop", "print"}

Done(k) == Parsing /\ k < idx /\ Len(output) >= 3 * k

DumpOf(k) == output[3 * k - 1]

\* C8 as stated: an entry has the key resource only when none of type, domain and
\* answers applies; an entry with type, domain or answers has no resource.
C8_ResourceOnlyWhenNothingApplies ==
    \A k \in 1..Len(report.list) :
        (Done(k) /\ HasKey(DumpOf(k), "resource")) =>
            /\ ~HasKey(DumpOf(k), "type")
            /\ ~HasKey(DumpOf(k), "domain")
            /\ ~HasKey(DumpOf(k), "answers")

\* C8, amended: an entry has the key resource exactly when resource.answers is
\* missing or empty, whether or not it has type or domain; it has answers exactly
\* when resource.answers is not empty; answers and resource are never both
\* present, and one of them always is.
C8_ResourceExactlyWhenNoAnswers ==
    \A k \in 1..Len(report.list) :
        Done(k) =>
            /\ HasKey(DumpOf(k), "resource") <=> ~HasAnswers(report.list[k])
            /\ HasKey(DumpOf(k), "answers") <=> HasAnswers(report.list[k])
            /\ HasKey(DumpOf(k), "type") <=> Truthy(report.list[k].resource.type)
            /\ HasKey(DumpOf(k), "domain") <=> Truthy(report.list[k].resource.domain)

\* an entry with type, domain and resource
C8_Witness ==
    /\ pc = "print"
    /\ Done(1)
    /\ HasKey(DumpOf(1), "type")
    /\ HasKey(DumpOf(1), "domain")
    /\ HasKey(DumpOf(1), "resource")
    /\ ~HasKey(DumpOf(1), "answers")

\* the lines of one record's block of the report
Block(item) == <<SeparatorLine>> \o YamlDump(BuildEntry(item)) \o <<BlankLine>>

RECURSIVE Blocks(_)
Blocks(list) == IF list = <<>> THEN <<>> ELSE Block(Head(list)) \o Blocks(Tail(list))

CountKind(lines, kind) == Cardinality({j \in 1..Len(lines) : lines[j].kind = kind})

\* C9: for a list of n well-formed records the report has n separator lines and
\* n entries, the i-th built from the i-th record; for n = 0 it is empty.
C9_OneEntryPerRecordInOrder ==
    (report.kind = "list" /\ parsed_reports.kind = "text") =>
        /\ CountKind(parsed_reports.lines, "separator") = Len(report.list)
        /\ CountKind(parsed_reports.lines, "blank") = Len(report.list)
        /\ parsed_reports.lines = Blocks(report.list)
        /\ Len(report.list) = 0 => parsed_reports.lines = <<>>

\* a report of two different records
C9_Witness ==
    /\ report.kind = "list"
    /\ parsed_reports.kind = "text"
    /\ Len(report.list) = 2
    /\ report.list[1] # report.list[2]
    /\ CountKind(parsed_reports.lines, "separator") = 2

\* the strings of the answers list of a dumped entry, in order
AnswerItems(lines) ==
    LET items == SelectSeq(lines, LAMBDA l : l.kind = "item")
    IN  [j \in 1..Len(items) |-> items[j].s]

\* the number of strings in the first k elements
RECURSIVE Before(_, _)
Before(answers, k) ==
    IF k = 0 THEN 0 ELSE Before(answers, k - 1) + Len(answers[k].answer)

\* C10: the answers of an entry are the answer sequences of the elements of
\* resource.answers, element after element, each in its own order, nothing
\* dropped, repeated or merged.
C10_AnswersAreConcatenated ==
    \A k \in 1..Len(report.list) :
        (Done(k) /\ HasAnswers(report.list[k])) =>
            LET answers == report.list[k].resource.answers
                flat == AnswerItems(DumpOf(k))
            IN  /\ Len(flat) = Before(answers, Len(answers))
                /\ \A e \in 1..Len(answers) :
                      \A j \in 1..Len(answers[e].answer) :
                          flat[Before(answers, e - 1) + j] = answers[e].answer[j]

\* [{answer: [a]}, {answer: [b, a]}] gave [a, b, a]
C10_Witness ==
    /\ pc = "print"
    /\ Done(1)
    /\ report.list[1].resource.answers
          = <<AnswerOf(<<"1.2.3.4">>), AnswerOf(<<"5.6.7.8", "1.2.3.4">>)>>
    /\ AnswerItems(DumpOf(1)) = <<"1.2.3.4", "5.6.7.8", "1.2.3.4">>

====
